---------------------------- MODULE Spec2Model ----------------------------
(***************************************************************************)
(* Model of oncequinox.SingletonModuleMeta (src/src/oncequinox/            *)
(* _singleton.py).                                                         *)
(*                                                                         *)
(* The program state is the module-level registry `_singleton_insts`, a    *)
(* weakref.WeakKeyDictionary[type, object], the heap of module instances,  *)
(* and, for every thread, its position inside SingletonModuleMeta.__call__ *)
(* together with the references it holds.                                  *)
(*                                                                         *)
(* A WeakKeyDictionary refers weakly to its KEYS (the classes) and         *)
(* strongly to its VALUES (the instances).  Every instance refers to its   *)
(* class, so a class that has an entry stays reachable through the entry's *)
(* value: an entry, once stored, is never discarded by the dictionary.     *)
(* __call__ has no lock: the interpreter may switch threads between any    *)
(* two of its statements, so each statement is one step of the model.      *)
(* The construction of line 88 runs the class's own __init__, which may    *)
(* call the class again: the frames of __call__ of one thread nest, the    *)
(* outer ones suspended inside line 88.                                    *)
(***************************************************************************)
EXTENDS Integers, Sequences, FiniteSets

\* ---- bounds of the model ------------------------------------------------
NumThreads == 2
MaxInstances == 2

\* ---- the inputs ---------------------------------------------------------
Threads == 1..NumThreads
\* the participating classes: a base module and its subclass
Types == {"BaseModule", "DerivedModule"}
\* the direct base of a class among the participating classes (itself if none)
BaseOf(c) == IF c = "DerivedModule" THEN "BaseModule" ELSE c
\* the argument caller t passes to the constructor: each caller constructs
\* with a value of its own, so calls of different callers differ in their
\* arguments and repeated calls of one caller agree
ArgOf(t) == 10 * t
\* "no object": an absent registry key, an unset local
None == 0
Ids == 1..MaxInstances
\* the parameter `cls` of a frame that is not running
NoClass == "none"

VARIABLES
    registry,    \* _singleton_insts: class -> instance id, None if key absent
    heap,        \* the instances ever built: sequence of [cls, value, alive]
    pc,          \* per thread: position in __call__
    cls,         \* per thread: the parameter `cls` of __call__
    args,        \* per thread: the parameters `args`, `kwargs` of __call__
    self,        \* per thread: the local `self` of __call__
    depth,       \* per thread: suspended outer frames of __call__, each inside line 88
    held,        \* the instances some caller holds a strong reference to
    failed,      \* per class: the underlying construction has raised at least once
    heldAtCall,  \* per thread: instances of cls that callers have held since the call began
    entryAtCall  \* per thread: the registry entry of cls when the call began

vars == <<registry, heap, pc, cls, args, self, depth, held, failed,
          heldAtCall, entryAtCall>>

\* ---- weakref.WeakKeyDictionary ------------------------------------------
\* variant: the membership test also accepts an entry of the base class
ContainsInherited(reg, c) == reg[c] # None \/ reg[BaseOf(c)] # None

\* variant: the membership test never finds an entry
ContainsNever(reg, c) == FALSE

\* `cls in _singleton_insts`
Contains(reg, c) == reg[c] # None

\* `_singleton_insts[cls]`
GetItem(reg, c) == reg[c]

\* variant: the entry is stored under the base class
SetItemBase(reg, c, v) == [reg EXCEPT ![BaseOf(c)] = v]

\* `_singleton_insts[cls] = self`
SetItem(reg, c, v) == [reg EXCEPT ![c] = v]

\* ---- the underlying construction: super().__call__(*args, **kwargs) -----
Construct(h, c, a) == Append(h, [cls |-> c, value |-> a, alive |-> TRUE])

\* ---- reachability -------------------------------------------------------
Allocated == 1..Len(heap)

InstancesOf(c) == {x \in Allocated : heap[x].cls = c}

\* x is referred to by a frame of __call__ that is still running
InFrame(x) == \E t \in Threads : pc[t] \in {"store", "return"} /\ self[t] = x

\* x is a value of the registry: the dictionary refers to its values strongly
InRegistry(x) == \E c \in Types : registry[c] = x

\* variant: the dictionary refers to its values weakly as well
ReachableWeakValues(x) == x \in held \/ InFrame(x)

Reachable(x) == x \in held \/ InFrame(x) \/ InRegistry(x)

\* frames of thread t that may still construct an instance: the suspended
\* ones and the running one if it is at line 88
PendingOf(t) == depth[t] + (IF pc[t] = "build" THEN 1 ELSE 0)

RECURSIVE PendingUpTo(_)
PendingUpTo(n) == IF n = 0 THEN 0 ELSE PendingOf(n) + PendingUpTo(n - 1)

\* frames in flight that may still construct an instance
Pending == PendingUpTo(NumThreads)

\* ---- SingletonModuleMeta.__call__ ---------------------------------------
\* a caller evaluates cls(*args, **kwargs): __call__ is entered and runs its
\* first statement, `if cls in _singleton_insts:`
Call(t, c, a) ==
    /\ pc[t] = "idle"
    /\ Contains(registry, c) \/ Len(heap) + Pending < MaxInstances
    /\ pc' = [pc EXCEPT ![t] = IF Contains(registry, c) THEN "get" ELSE "build"]
    /\ cls' = [cls EXCEPT ![t] = c]
    /\ args' = [args EXCEPT ![t] = a]
    /\ heldAtCall' = [heldAtCall EXCEPT ![t] = InstancesOf(c) \cap held]
    /\ entryAtCall' = [entryAtCall EXCEPT ![t] = registry[c]]
    /\ UNCHANGED <<registry, heap, self, depth, held, failed>>

\* variant: the instance is registered before its construction runs, so the
\* nested call finds an entry
ReenterFindsEntry(t) ==
    /\ pc[t] = "build"
    /\ depth' = [depth EXCEPT ![t] = @ + 1]
    /\ pc' = [pc EXCEPT ![t] = "get"]
    /\ heldAtCall' = [heldAtCall EXCEPT ![t] = InstancesOf(cls[t]) \cap held]
    /\ entryAtCall' = [entryAtCall EXCEPT ![t] = registry[cls[t]]]
    /\ UNCHANGED <<registry, heap, cls, args, self, held, failed>>

\* the construction thread t is running (__init__, inside line 88) evaluates
\* cls(*args, **kwargs) for its own class: a nested frame of __call__ is
\* entered and runs its first statement; the outer frame stays suspended
Reenter(t) ==
    /\ pc[t] = "build"
    /\ Contains(registry, cls[t]) \/ Len(heap) + Pending < MaxInstances
    /\ depth' = [depth EXCEPT ![t] = @ + 1]
    /\ pc' = [pc EXCEPT ![t] =
           IF Contains(registry, cls[t]) THEN "get" ELSE "build"]
    /\ heldAtCall' = [heldAtCall EXCEPT ![t] = InstancesOf(cls[t]) \cap held]
    /\ entryAtCall' = [entryAtCall EXCEPT ![t] = registry[cls[t]]]
    /\ UNCHANGED <<registry, heap, cls, args, self, held, failed>>

\* the running frame of __call__ is left: its locals go out of scope.  The
\* outermost frame hands control back to the caller; a nested frame hands it
\* back to the construction of the frame below, which is at line 88, was
\* entered on the miss path and has not assigned `self` yet.
Leave(t) ==
    /\ pc' = [pc EXCEPT ![t] = IF depth[t] = 0 THEN "idle" ELSE "build"]
    /\ depth' = [depth EXCEPT ![t] = IF depth[t] = 0 THEN 0 ELSE @ - 1]
    /\ cls' = [cls EXCEPT ![t] = IF depth[t] = 0 THEN NoClass ELSE @]
    /\ args' = [args EXCEPT ![t] = IF depth[t] = 0 THEN None ELSE @]
    /\ self' = [self EXCEPT ![t] = None]
    /\ heldAtCall' = [heldAtCall EXCEPT ![t] = {}]
    /\ entryAtCall' = [entryAtCall EXCEPT ![t] = None]

\* the value of the return statement thread t is at
ReturnValue(t) ==
    IF pc[t] = "get" THEN GetItem(registry, cls[t]) ELSE self[t]

\* `return _singleton_insts[cls]`: the caller receives the reference
Get(t) ==
    /\ pc[t] = "get"
    /\ held' = held \cup {ReturnValue(t)}
    /\ Leave(t)
    /\ UNCHANGED <<registry, heap, failed>>

\* `self = super().__call__(*args, **kwargs)`, the construction succeeds
BuildOk(t) ==
    /\ pc[t] = "build"
    /\ heap' = Construct(heap, cls[t], args[t])
    /\ self' = [self EXCEPT ![t] = Len(heap) + 1]
    /\ pc' = [pc EXCEPT ![t] = "store"]
    /\ UNCHANGED <<registry, cls, args, depth, held, failed, heldAtCall,
                   entryAtCall>>

\* variant: the instance is registered before its construction has finished,
\* and stays registered when the construction raises
BuildFailCached(t) ==
    /\ pc[t] = "build"
    /\ heap' = Construct(heap, cls[t], args[t])
    /\ registry' = SetItem(registry, cls[t], Len(heap) + 1)
    /\ failed' = [failed EXCEPT ![cls[t]] = TRUE]
    /\ Leave(t)
    /\ UNCHANGED <<held>>

\* variant: a handler of the raising construction discards the entry of cls
BuildFailEvicts(t) ==
    /\ pc[t] = "build"
    /\ registry' = [registry EXCEPT ![cls[t]] = None]
    /\ failed' = [failed EXCEPT ![cls[t]] = TRUE]
    /\ Leave(t)
    /\ UNCHANGED <<heap, held>>

\* `self = super().__call__(*args, **kwargs)`, the construction raises:
\* the exception leaves __call__
BuildFail(t) ==
    /\ pc[t] = "build"
    /\ failed' = [failed EXCEPT ![cls[t]] = TRUE]
    /\ Leave(t)
    /\ UNCHANGED <<registry, heap, held>>

\* `_singleton_insts[cls] = self`
Store(t) ==
    /\ pc[t] = "store"
    /\ registry' = SetItem(registry, cls[t], self[t])
    /\ pc' = [pc EXCEPT ![t] = "return"]
    /\ UNCHANGED <<heap, cls, args, self, depth, held, failed, heldAtCall,
                   entryAtCall>>

\* `return self`: the caller receives the reference
Return(t) ==
    /\ pc[t] = "return"
    /\ held' = held \cup {ReturnValue(t)}
    /\ Leave(t)
    /\ UNCHANGED <<registry, heap, failed>>

\* ---- the environment ----------------------------------------------------
\* variant: the entry of an instance goes when its last caller drops it
ReleaseDropsEntry(x) ==
    /\ x \in held
    /\ held' = held \ {x}
    /\ registry' = [c \in Types |-> IF registry[c] = x THEN None ELSE registry[c]]
    /\ heldAtCall' = [t \in Threads |-> heldAtCall[t] \ {x}]
    /\ UNCHANGED <<heap, pc, cls, args, self, depth, failed, entryAtCall>>

\* the last caller holding x drops its reference (`del instance`)
Release(x) ==
    /\ x \in held
    /\ held' = held \ {x}
    /\ heldAtCall' = [t \in Threads |-> heldAtCall[t] \ {x}]
    /\ UNCHANGED <<registry, heap, pc, cls, args, self, depth, failed,
                   entryAtCall>>

\* the collector reclaims an instance nothing refers to strongly
Collect(x) ==
    /\ x \in Allocated
    /\ heap[x].alive
    /\ ~Reachable(x)
    /\ heap' = [heap EXCEPT ![x].alive = FALSE]
    /\ UNCHANGED <<registry, pc, cls, args, self, depth, held, failed,
                   heldAtCall, entryAtCall>>

Init ==
    /\ registry = [c \in Types |-> None]
    /\ heap = <<>>
    /\ pc = [t \in Threads |-> "idle"]
    /\ cls = [t \in Threads |-> NoClass]
    /\ args = [t \in Threads |-> None]
    /\ self = [t \in Threads |-> None]
    /\ depth = [t \in Threads |-> 0]
    /\ held = {}
    /\ failed = [c \in Types |-> FALSE]
    /\ heldAtCall = [t \in Threads |-> {}]
    /\ entryAtCall = [t \in Threads |-> None]

Next ==
    \/ \E t \in Threads, c \in Types : Call(t, c, ArgOf(t))
    \/ \E t \in Threads : Reenter(t)
    \/ \E t \in Threads : Get(t)
    \/ \E t \in Threads : BuildOk(t)
    \/ \E t \in Threads : BuildFail(t)
    \/ \E t \in Threads : Store(t)
    \/ \E t \in Threads : Return(t)
    \/ \E x \in Ids : Release(x)
    \/ \E x \in Ids : Collect(x)

Spec == Init /\ [][Next]_vars

\* single-threaded execution: one thread makes all the calls
NextSeq ==
    \/ \E c \in Types : Call(1, c, ArgOf(1))
    \/ Reenter(1)
    \/ Get(1)
    \/ BuildOk(1)
    \/ BuildFail(1)
    \/ Store(1)
    \/ Return(1)
    \/ \E x \in Ids : Release(x)
    \/ \E x \in Ids : Collect(x)

SpecSeq == Init /\ [][NextSeq]_vars

TypeOK ==
    /\ registry \in [Types -> Ids \cup {None}]
    /\ Len(heap) <= MaxInstances
    /\ pc \in [Threads -> {"idle", "get", "build", "store", "return"}]
    /\ held \subseteq Allocated
    /\ depth \in [Threads -> 0..MaxInstances]
    \* a frame on the miss path was entered when its class had no entry, so
    \* no caller held an instance of the class then
    /\ \A t \in Threads : pc[t] \in {"build", "store", "return"} =>
          (heldAtCall[t] = {} /\ entryAtCall[t] = None)


\* ---- steps of a call, as seen from outside ------------------------------
\* thread t enters a frame of __call__ (for the class cls'[t])
Enters(t) == (pc[t] = "idle" /\ pc'[t] # "idle") \/ depth'[t] > depth[t]

\* thread t has left its running frame
Left(t) ==
    \/ depth[t] = 0 /\ pc'[t] = "idle"
    \/ depth[t] > 0 /\ depth'[t] = depth[t] - 1 /\ pc'[t] = "build"

\* thread t's running call returns ReturnValue(t) to its caller
Returns(t) == pc[t] \in {"get", "return"} /\ Left(t)

\* thread t's running call raises the exception of the underlying construction
Raises(t) == pc[t] = "build" /\ Left(t)

\* thread t's call has constructed an instance
Constructs(t) == pc[t] = "build" /\ pc'[t] = "store"

\* thread t takes a step of its call
Acts(t) == pc'[t] # pc[t] \/ depth'[t] # depth[t]

\* the class of the call thread t is taking a step of
ActiveCls(t) == IF pc[t] = "idle" THEN cls'[t] ELSE cls[t]

\* the collector has nothing left to reclaim
NoGarbage == \A x \in Allocated : heap[x].alive => Reachable(x)

\* the classes that have an entry
Keys == {c \in Types : registry[c] # None}

\* ---- C1 -----------------------------------------------------------------
\* C1 (identity): when a call for a class returns, every instance of that
\* class that callers have held since before the call began is the
\* instance the call returns.
Identity ==
    [][\A t \in Threads : Returns(t) =>
          \A x \in heldAtCall[t] : ReturnValue(t) = x]_vars

\* ---- C2 -----------------------------------------------------------------
\* C2 (first construction wins): a call that began when the class had an
\* instance returns that instance, whatever its arguments, and no step
\* changes the field values an instance was constructed with.
FirstConstructionWins ==
    [][/\ \A x \in Allocated : heap'[x].value = heap[x].value
       /\ \A t \in Threads : (Returns(t) /\ entryAtCall[t] # None) =>
             ReturnValue(t) = entryAtCall[t]]_vars

\* ---- C3 -----------------------------------------------------------------
\* C3 (per-type isolation): a step of a call for a class changes no entry
\* of another class; whether the call constructs depends on the entry of
\* its own class only (an instance of the base never answers a call for the
\* subclass, nor the reverse); the instance it returns is an instance of
\* its own class, so no instance is returned for two classes.
PerTypeIsolation ==
    [][\A t \in Threads :
          /\ Acts(t) =>
                \A c \in Types \ {ActiveCls(t)} : registry'[c] = registry[c]
          /\ Enters(t) =>
                (pc'[t] = "build") = (registry[cls'[t]] = None)
          /\ Returns(t) =>
                /\ ReturnValue(t) \in Allocated
                /\ heap[ReturnValue(t)].cls = cls[t]]_vars

\* both classes have an instance, the base was constructed first, and a
\* caller holds both
IsolationWitness ==
    /\ registry["BaseModule"] = 1
    /\ registry["DerivedModule"] = 2
    /\ held = {1, 2}

\* ---- C4 -----------------------------------------------------------------
\* C4 (reclaim and recreate): a call made when no caller and no running
\* frame refers to the instance of its class, and the collector has
\* reclaimed all it can, constructs a new instance.
ReclaimAndRecreate ==
    [][\A t \in Threads :
          (/\ Enters(t)
           /\ registry[cls'[t]] # None
           /\ registry[cls'[t]] \notin held
           /\ ~InFrame(registry[cls'[t]])
           /\ NoGarbage) => pc'[t] = "build"]_vars

\* ---- C5 -----------------------------------------------------------------
\* C5 (non-owning registry): a live instance that no caller holds and no
\* running frame refers to is not reachable, so the collector may reclaim it.
NonOwningRegistry ==
    \A x \in Allocated :
        (heap[x].alive /\ x \notin held /\ ~InFrame(x)) => ~Reachable(x)

\* ---- C6 -----------------------------------------------------------------
\* C6 (concurrency safety): for a class whose construction never raised
\* and none of whose instances was reclaimed, the construction has run at
\* most once, whatever the interleaving of the calls.
ConcurrencySafety ==
    \A c \in Types :
        (~failed[c] /\ \A x \in InstancesOf(c) : heap[x].alive) =>
            Cardinality(InstancesOf(c)) <= 1

\* ---- C7 -----------------------------------------------------------------
\* C7 (failure is not cached): a construction that raises when its class
\* has no entry leaves the class without an entry; a call for a class whose
\* construction has raised, made when the class has no entry, constructs
\* again; and what that construction yields is a new, live instance of the
\* class with the caller's arguments.
FailureNotCached ==
    [][\A t \in Threads :
          /\ (Raises(t) /\ registry[cls[t]] = None) =>
                registry'[cls[t]] = None
          /\ (Enters(t) /\ failed[cls'[t]] /\ registry[cls'[t]] = None) =>
                pc'[t] = "build"
          /\ (Constructs(t) /\ failed[cls[t]]) =>
                /\ self'[t] \notin Allocated
                /\ self'[t] \in 1..Len(heap')
                /\ heap'[self'[t]] =
                      [cls |-> cls[t], value |-> args[t], alive |-> TRUE]]_vars

\* a class whose construction has raised now has an instance, returned to
\* a caller
RetryWitness ==
    \E c \in Types :
        /\ failed[c]
        /\ registry[c] # None
        /\ registry[c] \in held
        /\ \A t \in Threads : pc[t] = "idle"

\* ---- C8 -----------------------------------------------------------------
\* C8 (single live instance): callers never hold two distinct instances of
\* one class.
SingleLiveInstance ==
    \A c \in Types : Cardinality(InstancesOf(c) \cap held) <= 1

\* ---- C9 -----------------------------------------------------------------
\* C9 (exact-type provenance): every entry, and every value a call is
\* about to return, is an instance that a successful construction of
\* exactly that class produced; the registry has no more entries than
\* there are classes with a successful construction.
ExactTypeProvenance ==
    /\ \A c \in Keys : registry[c] \in InstancesOf(c)
    /\ \A t \in Threads :
          pc[t] \in {"get", "return"} => ReturnValue(t) \in InstancesOf(cls[t])
    /\ Cardinality(Keys) <= Cardinality({c \in Types : InstancesOf(c) # {}})

\* the subclass has an entry, held by a caller, and the base has none
ProvenanceWitness ==
    /\ registry["DerivedModule"] \in held
    /\ registry["BaseModule"] = None
    /\ InstancesOf("BaseModule") = {}

\* ---- C10 ----------------------------------------------------------------
\* C10 (hit path has no effect): a call made while its class has an entry
\* goes to the lookup, never to the construction, and neither step changes
\* the registry or the heap.
HitPathNoEffect ==
    [][\A t \in Threads :
          /\ (Enters(t) /\ registry[cls'[t]] # None) =>
                /\ pc'[t] = "get"
                /\ registry' = registry
                /\ heap' = heap
          /\ (pc[t] = "get" /\ Acts(t)) =>
                /\ Returns(t)
                /\ registry' = registry
                /\ heap' = heap]_vars

\* a call with other arguments is on the hit path of a class whose
\* instance a caller holds
HitWitness ==
    \E t \in Threads :
        /\ pc[t] = "get"
        /\ registry[cls[t]] \in held
        /\ heap[registry[cls[t]]].value # args[t]

\* ---- C11 ----------------------------------------------------------------
\* C11 (miss path): a call made while its class has no entry goes to the
\* construction; the construction builds one instance of the class with
\* the caller's arguments; and when the call returns that instance, it is
\* an instance (never absent) and it is the registry entry of the class.
MissPath ==
    [][\A t \in Threads :
          /\ (Enters(t) /\ registry[cls'[t]] = None) => pc'[t] = "build"
          /\ Constructs(t) =>
                heap' = Append(heap, [cls |-> cls[t], value |-> args[t],
                                      alive |-> TRUE])
          /\ (Returns(t) /\ pc[t] = "return") =>
                /\ ReturnValue(t) \in Allocated
                /\ registry[cls[t]] = ReturnValue(t)]_vars

\* ---- C12 ----------------------------------------------------------------
\* C12 (state unchanged on error): the step in which a construction raises
\* ends the call without a value and changes neither the registry, for any
\* class, nor the heap, nor what callers hold; entering the call changed
\* nothing of them either.
StateUnchangedOnError ==
    [][\A t \in Threads :
          /\ Raises(t) =>
                /\ registry' = registry
                /\ heap' = heap
                /\ held' = held
          /\ Enters(t) =>
                /\ registry' = registry
                /\ heap' = heap
                /\ held' = held]_vars

\* the construction of a class has raised, the class has no entry, and the
\* entry of the other class is in place
ErrorWitness ==
    \E c \in Types :
        /\ failed[c]
        /\ registry[c] = None
        /\ InstancesOf(c) = {}
        /\ \E e \in Types \ {c} : registry[e] # None
        /\ \A t \in Threads : pc[t] = "idle"

\* ---- C13 ----------------------------------------------------------------
\* C13 (no use-after-reclaim): whenever a call has passed the membership
\* test and is about to read the entry, the entry is present and is a live
\* instance, whatever references were released and whatever the collector
\* reclaimed in between; no caller ever holds a reclaimed instance.
NoUseAfterReclaim ==
    /\ \A t \in Threads : pc[t] = "get" =>
          /\ registry[cls[t]] # None
          /\ registry[cls[t]] \in Allocated
          /\ heap[registry[cls[t]]].alive
    /\ \A x \in held : heap[x].alive

\* a call is between the membership test and the read of the entry while
\* no caller and no frame refers to the registered instance
UpgradeWitness ==
    \E t \in Threads :
        /\ pc[t] = "get"
        /\ registry[cls[t]] \notin held
        /\ ~InFrame(registry[cls[t]])

\* ---- C14 ----------------------------------------------------------------
\* C14 (re-entrant construction fails fast): no nested frame is ever on
\* the miss path; a nested call exists only to read an entry that is
\* already stored.
ReentrantFailsFast ==
    \A t \in Threads : depth[t] > 0 => pc[t] = "get"

\* C14 as amended: a nested call is handled as any other call; it raises
\* nothing on entry and changes neither the registry nor the heap, and it
\* goes to the construction again exactly if its class has no entry.
ReentrantConstructsAgain ==
    [][\A t \in Threads : depth'[t] > depth[t] =>
          /\ depth'[t] = depth[t] + 1
          /\ (pc'[t] = "build") = (registry[cls[t]] = None)
          /\ (pc'[t] = "get") = (registry[cls[t]] # None)
          /\ cls'[t] = cls[t]
          /\ registry' = registry
          /\ heap' = heap
          /\ failed' = failed]_vars

\* a nested call, made before the outer call has stored an entry, is at the
\* construction
NestedConstructionWitness ==
    \E t \in Threads :
        /\ depth[t] > 0
        /\ pc[t] = "build"
        /\ registry[cls[t]] = None

=============================================================================
